---- MODULE Spec2Model ----
(***************************************************************************)
(* Symbol reference indexing and context packing of code-rag-debugger:     *)
(* the reference graph traversal and resolver (services/reference_service),*)
(* the reference pack builder, and the indexing pipeline                   *)
(* (workers/reference_indexer) over the CRUD store (models/crud).          *)
(*                                                                         *)
(* The store tables are sequences of rows in the order the store returns   *)
(* them.  Python's None is the record None.                                *)
(***************************************************************************)
EXTENDS Integers, Sequences, FiniteSets, TLC

VARIABLES
    symbolTable,      \* rows of table "symbols"
    referenceTable,   \* rows of table "references"
    projects,         \* ids of the rows of table "projects"
    repoFiles,        \* the checked-out repository: file path -> its lines
    parsers,          \* ASTParser.parsers: the languages whose grammar was loaded
    vectorMatches,    \* the vector index's ranked matches for the query snippet
    refsCall,         \* the last get_symbol_references call and its result
    packCall,         \* the last build_reference_pack call and its outcome
    resolveCall,      \* the last resolve_snippet_to_symbol call and its result
    findCall,         \* the last find_enclosing_symbol call and its result
    rankCall,         \* the last rank_references call and its result
    selectCall,       \* the last _rank_and_select_snippets call and its result
    jobTable,         \* rows of the indexing_jobs table, in id order
    chunkTable,       \* rows of the symbol_chunks table, in id order
    store,            \* "up", "down" during the outage, "restored" after it
    job,              \* the frame of the running index_project_symbols call, or None
    history,          \* one summary per finished index_project_symbols call
    workers           \* the frames of two index_project_symbols calls that run side by side

vars == <<symbolTable, referenceTable, projects, repoFiles, parsers, vectorMatches,
          refsCall, packCall, resolveCall, findCall, rankCall, selectCall, jobTable, chunkTable,
          store, job, history, workers>>

\* what the retrieval operations leave alone
storeVars == <<symbolTable, referenceTable, projects, repoFiles, parsers, vectorMatches,
               jobTable, chunkTable, store, job, history, workers, selectCall>>

\* whether the store answers; while it does not, every crud call fails
storeUp == store # "down"

None == [none |-> TRUE]

\* the two background tasks of the index endpoint, neither started
Workers == {1, 2}
IdleWorkers == [w \in Workers |-> [pc |-> "idle"]]

\* ------------------------------------------------------------------ bounds
NumSymbols == 3
MaxEdges == 2
MaxDepthArg == 2
MaxReferencesArg == 2
MaxLines == 2
MaxWords == 1
MaxBudget == 3
MaxPersisted == 2
MaxMatches == 1
MaxRuns == 2
MaxRepeats == 3
MaxCandidates == 3
MaxCallDistance == 1
\* self.batch_size, scaled down from 50 so that a small repository needs several batches
BatchSize == 2

\* ------------------------------------------------------------------ program constants
MaxReferencesDefault == 50
PackMaxDepth == 2
ContextLines == 5

SymbolIds == 1 .. NumSymbols

\* ------------------------------------------------------------------ helpers
RECURSIVE SeqsUpTo(_, _)
SeqsUpTo(S, n) ==
    IF n = 0 THEN {<<>>}
    ELSE LET shorter == SeqsUpTo(S, n - 1)
         IN  shorter \cup {Append(s, x) : s \in {t \in shorter : Len(t) = n - 1}, x \in S}

\* The store numbers the rows of a table serially: row i has id i.
WithIds(rows) == [i \in 1 .. Len(rows) |-> [id |-> i] @@ rows[i]]

\* ------------------------------------------------------------------ store reads
\* crud.symbol.get(id): result.data[0] if result.data else None
symbol_get(id) ==
    LET rows == SelectSeq(symbolTable, LAMBDA r : r.id = id)
    IN  IF Len(rows) > 0 THEN rows[1] ELSE None

\* crud.reference.get_by_symbol(symbol_id): the rows with from_symbol_id = symbol_id
reference_get_by_symbol(symbol_id) ==
    SelectSeq(referenceTable, LAMBDA r : r.from_symbol_id = symbol_id)

\* ------------------------------------------------------------------ get_symbol_references
\* The entry appended for one direct reference.
RefEntryDepthOffByOne(ref, depth) ==
    [reference |-> ref, depth |-> depth + 1, symbol |-> symbol_get(ref.to_symbol_id)]

RefEntry(ref, depth) ==
    [reference |-> ref, depth |-> depth, symbol |-> symbol_get(ref.to_symbol_id)]

RECURSIVE traverse(_, _, _, _, _)
RECURSIVE traverse_loop(_, _, _, _, _, _)

\* a traversal without the visited test
traverse_revisiting(st, current_symbol_id, depth, max_depth, max_references) ==
    IF depth > max_depth \/ Len(st.references) >= max_references THEN st
    ELSE traverse_loop([st EXCEPT !.visited = @ \cup {current_symbol_id}],
                       reference_get_by_symbol(current_symbol_id), 1,
                       depth, max_depth, max_references)

\* st = [references, visited]: the closure's two mutable locals.
traverse(st, current_symbol_id, depth, max_depth, max_references) ==
    IF depth > max_depth \/ Len(st.references) >= max_references THEN st
    ELSE IF current_symbol_id \in st.visited THEN st
    ELSE traverse_loop([st EXCEPT !.visited = @ \cup {current_symbol_id}],
                       reference_get_by_symbol(current_symbol_id), 1,
                       depth, max_depth, max_references)

\* for ref in direct_refs: append, then recurse while depth < max_depth
traverse_loop(st, direct_refs, i, depth, max_depth, max_references) ==
    IF i > Len(direct_refs) THEN st
    ELSE LET ref == direct_refs[i]
             appended == [st EXCEPT !.references = Append(@, RefEntry(ref, depth))]
             after == IF depth < max_depth
                      THEN traverse(appended, ref.to_symbol_id, depth + 1,
                                    max_depth, max_references)
                      ELSE appended
         IN  traverse_loop(after, direct_refs, i + 1, depth, max_depth, max_references)

get_symbol_references(symbol_id, max_depth, max_references) ==
    IF symbol_get(symbol_id) = None THEN <<>>
    ELSE traverse([references |-> <<>>, visited |-> {}], symbol_id, 0,
                  max_depth, max_references).references

\* ------------------------------------------------------------------ reference graph specification
SymbolRow(i) ==
    [id |-> i, project_id |-> 1, file_path |-> "a.py", symbol_name |-> "f",
     start_line |-> i, end_line |-> i]

ReferenceRow(f, t, path, line) ==
    [from_symbol_id |-> f, to_symbol_id |-> t, reference_type |-> "usage",
     file_path |-> path, line |-> line]

GraphRows == {ReferenceRow(f, t, "a.py", 1) : f \in SymbolIds, t \in SymbolIds}

InitRefs ==
    /\ symbolTable = [i \in SymbolIds |-> SymbolRow(i)]
    /\ referenceTable \in {WithIds(rows) : rows \in SeqsUpTo(GraphRows, MaxEdges)}
    /\ projects = {1}
    /\ repoFiles = [p \in {"a.py"} |-> <<>>]
    /\ parsers = {}
    /\ vectorMatches = <<>>
    /\ refsCall = None
    /\ packCall = None
    /\ resolveCall = None
    /\ findCall = None
    /\ rankCall = None
    /\ selectCall = None
    /\ jobTable = <<>>
    /\ chunkTable = <<>>
    /\ store = "up"
    /\ job = None
    /\ history = <<>>
    /\ workers = IdleWorkers

\* One call of get_symbol_references; symbol id NumSymbols + 1 is not persisted.
GetSymbolReferences ==
    \E s \in 1 .. NumSymbols + 1, d \in 0 .. MaxDepthArg, n \in 0 .. MaxReferencesArg :
        /\ refsCall = None
        /\ refsCall' = [symbol_id |-> s, max_depth |-> d, max_references |-> n,
                        result |-> get_symbol_references(s, d, n)]
        /\ UNCHANGED <<storeVars, packCall, resolveCall, findCall, rankCall>>

\* The caller takes the returned list.
ReturnReferences ==
    /\ refsCall # None
    /\ refsCall' = None
    /\ UNCHANGED <<storeVars, packCall, resolveCall, findCall, rankCall>>

NextRefs == GetSymbolReferences \/ ReturnReferences

SpecRefs == InitRefs /\ [][NextRefs]_vars

\* C1: get_symbol_references(s, max_depth, max_references = n) returns at most n
\* entries, whatever the number of outgoing references of a single symbol.
C1_AtMostMaxReferences ==
    refsCall # None => Len(refsCall.result) <= refsCall.max_references

\* C2: no returned entry has depth > max_depth; with max_depth = 0 every entry is a
\* direct outgoing reference of the anchor, at depth 0.
C2_DepthBounded ==
    refsCall # None =>
        \A i \in 1 .. Len(refsCall.result) :
            /\ refsCall.result[i].depth <= refsCall.max_depth
            /\ refsCall.result[i].depth >= 0
            /\ refsCall.max_depth = 0 =>
                   /\ refsCall.result[i].depth = 0
                   /\ refsCall.result[i].reference.from_symbol_id = refsCall.symbol_id

\* a call with max_depth >= 1 that returned an entry at depth max_depth, and
\* hence went through the recursion
C2_Witness ==
    /\ refsCall # None
    /\ refsCall.max_depth >= 1
    /\ \E i \in 1 .. Len(refsCall.result) :
           /\ refsCall.result[i].depth = refsCall.max_depth
           /\ refsCall.result[i].reference.from_symbol_id # refsCall.symbol_id

\* ------------------------------------------------------------------ repository files
\* A text is the sequence of its lines; a line carries what the code reads of it: its
\* whitespace-delimited word count, whether it is a declaration header ("def"), and
\* the symbol name it declares or mentions.  <<>> stands for a file that is absent
\* or empty: the code tests "if file_content" and treats both alike.
FileLine(kind, name, words) == [kind |-> kind, name |-> name, words |-> words]

Min(a, b) == IF a < b THEN a ELSE b
Max(a, b) == IF a > b THEN a ELSE b

\* Python's lines[a:b] for 0 <= a
Slice(lines, a, b) == SubSeq(lines, a + 1, Min(b, Len(lines)))

RECURSIVE SumWords(_)
SumWords(text) == IF text = <<>> THEN 0 ELSE Head(text).words + SumWords(Tail(text))

\* _estimate_tokens: len(text.split())
estimate_tokens(text) == SumWords(text)

\* _get_repo_path: crud.project.get(project_id), then the path of its checkout
get_repo_path(project_id) ==
    IF project_id \in projects THEN [repository |-> project_id] ELSE None

\* _read_file_content: None (here <<>>) when open() fails
read_file_content(repo_path, file_path) ==
    IF repo_path = None \/ file_path \notin DOMAIN repoFiles THEN <<>>
    ELSE repoFiles[file_path]

\* ------------------------------------------------------------------ build_reference_pack
get_symbol_definition(symbol) ==
    LET file_content == read_file_content(get_repo_path(symbol.project_id), symbol.file_path)
        definition == Slice(file_content, symbol.start_line - 1, symbol.end_line)
    IN  IF file_content # <<>> /\ symbol.start_line # 0 /\ symbol.end_line # 0
        THEN [content |-> definition, file_path |-> symbol.file_path,
              start_line |-> symbol.start_line, end_line |-> symbol.end_line,
              token_count |-> estimate_tokens(definition)]
        ELSE [content |-> <<>>, token_count |-> 0]

\* _get_reference_content: up to ContextLines lines around the reference line
get_reference_content(reference) ==
    LET file_content == read_file_content(get_repo_path(reference.symbol.project_id),
                                          reference.reference.file_path)
        start_line == Max(0, reference.reference.line - ContextLines)
        end_line == Min(Len(file_content), reference.reference.line + ContextLines)
    IN  IF file_content # <<>> THEN Slice(file_content, start_line, end_line) ELSE <<>>

\* the admission test of the greedy scan
AdmitsIgnoringTotal(total_tokens, token_count, token_budget) ==
    token_count <= token_budget

AdmitsBeforeAdding(total_tokens, token_count, token_budget) ==
    total_tokens <= token_budget

Admits(total_tokens, token_count, token_budget) ==
    total_tokens + token_count <= token_budget

RECURSIVE select_loop(_, _, _, _)
\* a scan that ends at the first candidate that does not fit
select_loop_stopping(selected, references, i, token_budget) ==
    IF i > Len(references) THEN selected
    ELSE IF references[i].symbol = None THEN [exception |-> "TypeError"]
    ELSE LET ref_content == get_reference_content(references[i])
             token_count == estimate_tokens(ref_content)
         IN  IF Admits(selected.total_tokens, token_count, token_budget)
             THEN select_loop([selected EXCEPT
                                 !.references = Append(@, [content |-> ref_content,
                                                           reference_type |->
                                                               references[i].reference.reference_type,
                                                           token_count |-> token_count]),
                                 !.total_tokens = @ + token_count],
                              references, i + 1, token_budget)
             ELSE selected

\* for ref in references: admit it when it fits, and go on with the next either way
select_loop(selected, references, i, token_budget) ==
    IF i > Len(references) THEN selected
    ELSE IF references[i].symbol = None THEN [exception |-> "TypeError"]
    ELSE LET ref_content == get_reference_content(references[i])
             token_count == estimate_tokens(ref_content)
             next == IF Admits(selected.total_tokens, token_count, token_budget)
                     THEN [selected EXCEPT
                             !.references = Append(@, [content |-> ref_content,
                                                       reference_type |->
                                                           references[i].reference.reference_type,
                                                       token_count |-> token_count]),
                             !.total_tokens = @ + token_count]
                     ELSE selected
         IN  select_loop(next, references, i + 1, token_budget)

\* a selection that also takes the historical fixes, one token each, while they fit
rank_and_select_snippets_with_fixes(definition, references, historical_fixes, token_budget) ==
    LET selected == select_loop([definition |-> definition, references |-> <<>>,
                                 callers |-> <<>>, callees |-> <<>>, imports |-> <<>>,
                                 tests |-> <<>>, historical_fixes |-> <<>>,
                                 total_tokens |-> definition.token_count,
                                 reasoning |-> "Prioritized definition and direct references"],
                                references, 1, token_budget)
    IN  IF "exception" \in DOMAIN selected THEN selected
        ELSE IF selected.total_tokens + Len(historical_fixes) <= token_budget
        THEN [selected EXCEPT !.historical_fixes = historical_fixes,
                              !.total_tokens = @ + Len(historical_fixes)]
        ELSE selected

rank_and_select_snippets(definition, references, historical_fixes, token_budget) ==
    select_loop([definition |-> definition, references |-> <<>>, callers |-> <<>>,
                 callees |-> <<>>, imports |-> <<>>, tests |-> <<>>,
                 historical_fixes |-> <<>>, total_tokens |-> definition.token_count,
                 reasoning |-> "Prioritized definition and direct references"],
                references, 1, token_budget)

\* _get_historical_fixes: similar_errors is what retrieve_similar_errors returned,
\* entries with the keys commit, similarity and content; the loop reads
\* error['metadata'], which no entry has, so a non-empty result raises KeyError.
get_historical_fixes(similar_errors) ==
    IF Len(similar_errors) = 0 THEN <<>> ELSE [exception |-> "KeyError"]

\* every exception is logged and raised again (lines 158-160)
build_reference_pack(symbol_id, token_budget, similar_errors) ==
    LET symbol == symbol_get(symbol_id)
    IN  IF symbol = None THEN [exception |-> "ValueError"]
        ELSE LET definition == get_symbol_definition(symbol)
                 references == get_symbol_references(symbol_id, PackMaxDepth,
                                                     MaxReferencesDefault)
                 historical_fixes == get_historical_fixes(similar_errors)
                 selected_snippets == rank_and_select_snippets(
                                          definition, references, historical_fixes,
                                          token_budget)
             IN  IF "exception" \in DOMAIN historical_fixes THEN historical_fixes
                 ELSE IF "exception" \in DOMAIN selected_snippets THEN selected_snippets
                 ELSE [symbol |-> symbol,
                       definition |-> selected_snippets.definition,
                       references |-> selected_snippets.references,
                       callers |-> selected_snippets.callers,
                       callees |-> selected_snippets.callees,
                       imports |-> selected_snippets.imports,
                       tests |-> selected_snippets.tests,
                       historical_fixes |-> selected_snippets.historical_fixes,
                       token_count |-> selected_snippets.total_tokens,
                       reasoning |-> selected_snippets.reasoning]

\* ------------------------------------------------------------------ pack builder specification
PackSymbolIds == {1, 2}
PackRefLines == {1, ContextLines + 1}
PackRows == {ReferenceRow(f, t, "a.py", l) :
                f \in PackSymbolIds, t \in PackSymbolIds, l \in PackRefLines}
PackLines == {FileLine("code", "f", w) : w \in 0 .. MaxWords}
\* what the retrieval service finds for "fix <name> error bug"
SimilarErrorChoices ==
    {<<>>, <<[commit |-> [hash |-> "c1"], similarity |-> 1, content |-> "fix f"]>>}

InitPack ==
    /\ symbolTable = [i \in SymbolIds |-> SymbolRow(i)]
    /\ referenceTable \in {WithIds(rows) : rows \in SeqsUpTo(PackRows, MaxEdges)}
    /\ projects = {1}
    /\ repoFiles \in {[p \in {"a.py"} |-> text] : text \in SeqsUpTo(PackLines, MaxLines)}
    /\ parsers = {}
    /\ vectorMatches = <<>>
    /\ refsCall = None
    /\ packCall = None
    /\ resolveCall = None
    /\ findCall = None
    /\ rankCall = None
    /\ selectCall = None
    /\ jobTable = <<>>
    /\ chunkTable = <<>>
    /\ store = "up"
    /\ job = None
    /\ history = <<>>
    /\ workers = IdleWorkers

\* One call of build_reference_pack; symbol id NumSymbols + 1 is not persisted.
BuildReferencePack ==
    \E s \in PackSymbolIds \cup {NumSymbols + 1}, b \in 0 .. MaxBudget,
       hf \in SimilarErrorChoices :
        /\ packCall = None /\ selectCall = None
        /\ packCall' = [symbol_id |-> s, token_budget |-> b,
                        candidates |-> Len(get_symbol_references(s, PackMaxDepth,
                                                                 MaxReferencesDefault)),
                        similar_errors |-> Len(hf),
                        outcome |-> build_reference_pack(s, b, hf)]
        /\ UNCHANGED <<storeVars, refsCall, resolveCall, findCall, rankCall>>

\* The caller takes the pack, or the exception raised again at line 160.
ReturnPack ==
    /\ packCall # None
    /\ packCall' = None
    /\ UNCHANGED <<storeVars, refsCall, resolveCall, findCall, rankCall>>

\* a list of fixes as _get_historical_fixes builds it
HistoricalFixes ==
    <<[commit_hash |-> [hash |-> "c1"], message |-> "fix f", similarity |-> 1]>>

\* One call of _rank_and_select_snippets on the definition and the candidates of
\* a persisted symbol, with a historical fix among its arguments.
RankAndSelectSnippets ==
    \E s \in PackSymbolIds, b \in 0 .. MaxBudget :
        LET hf == HistoricalFixes
            definition == get_symbol_definition(symbol_get(s))
            references == get_symbol_references(s, PackMaxDepth, MaxReferencesDefault)
        IN  /\ selectCall = None /\ packCall = None
            /\ selectCall' = [definition |-> definition, candidates |-> Len(references),
                              historical_fixes |-> hf, token_budget |-> b,
                              result |-> rank_and_select_snippets(definition, references,
                                                                  hf, b)]
            /\ UNCHANGED <<symbolTable, referenceTable, projects, repoFiles, parsers,
                           vectorMatches, jobTable, chunkTable, store, job, history,
                           workers, refsCall, packCall, resolveCall, findCall, rankCall>>

\* The caller takes the selection.
ReturnSelected ==
    /\ selectCall # None
    /\ selectCall' = None
    /\ UNCHANGED <<symbolTable, referenceTable, projects, repoFiles, parsers,
                   vectorMatches, jobTable, chunkTable, store, job, history,
                   workers, refsCall, packCall, resolveCall, findCall, rankCall>>

NextPack == BuildReferencePack \/ ReturnPack \/ RankAndSelectSnippets \/ ReturnSelected

SpecPack == InitPack /\ [][NextPack]_vars

Returned(call) == call # None /\ "exception" \notin DOMAIN call.outcome

RECURSIVE SumTokenCounts(_)
SumTokenCounts(snippets) ==
    IF snippets = <<>> THEN 0
    ELSE Head(snippets).token_count + SumTokenCounts(Tail(snippets))

\* C7: when definition.token_count < token_budget, the token estimates of the
\* selected references sum to at most token_budget - definition.token_count, so
\* the pack's token_count never exceeds token_budget.
C7_BudgetRespected ==
    (Returned(packCall) /\ packCall.outcome.definition.token_count < packCall.token_budget)
        => /\ SumTokenCounts(packCall.outcome.references)
                  <= packCall.token_budget - packCall.outcome.definition.token_count
           /\ packCall.outcome.token_count <= packCall.token_budget

\* a pack whose scan admitted one candidate with tokens and rejected another
C7_Witness ==
    /\ Returned(packCall)
    /\ packCall.outcome.definition.token_count < packCall.token_budget
    /\ SumTokenCounts(packCall.outcome.references) > 0
    /\ Len(packCall.outcome.references) < packCall.candidates

\* the lines [start_line, end_line] of the anchor's file as they are now
LiveDefinition(symbol_id) ==
    LET symbol == symbol_get(symbol_id)
        text == repoFiles[symbol.file_path]
    IN  [i \in 1 .. (Min(symbol.end_line, Len(text)) - symbol.start_line + 1)
            |-> text[symbol.start_line + i - 1]]

FileSuffix == [p \in {"a.py", "b.js", "c.rb", "d.py"} |->
                 CASE p \in {"a.py", "d.py"} -> ".py" [] p = "b.js" -> ".js" [] OTHER -> ".rb"]

\* ext_map.get(ext, 'unknown')
ext_map(ext) ==
    CASE ext = ".py" -> "python"
      [] ext \in {".js", ".jsx"} -> "javascript"
      [] ext \in {".ts", ".tsx"} -> "typescript"
      [] ext = ".java" -> "java"
      [] ext \in {".cpp", ".cc", ".cxx", ".h", ".hpp"} -> "cpp"
      [] ext = ".go" -> "go"
      [] ext = ".rs" -> "rust"
      [] OTHER -> "unknown"

detect_language(file_path) == ext_map(FileSuffix[file_path])

\* The extent of the declaration whose header is line i of a flat file: up to the
\* line before the next header, or the end of the file.
DeclEnd(text, i) ==
    LET later == {j \in (i + 1) .. Len(text) : text[j].kind \in {"def", "function"}}
    IN  IF later = {} THEN Len(text) ELSE (CHOOSE j \in later : \A k \in later : j <= k) - 1

RECURSIVE extract_declarations(_, _, _)
\* The tree walk shared by the extractors: one draft per named declaration node
\* of the grammar's kind, in document order.  A draft carries no id.  The text of
\* a node is taken to be what its byte range denotes.
extract_declarations(text, i, node_type) ==
    IF i > Len(text) THEN <<>>
    ELSE IF text[i].kind = node_type
         THEN <<[symbol_name |-> text[i].name, symbol_type |-> "function",
                 start_line |-> i, end_line |-> DeclEnd(text, i)]>>
              \o extract_declarations(text, i + 1, node_type)
         ELSE extract_declarations(text, i + 1, node_type)

\* _extract_python_symbols: function_definition nodes ("def" lines)
extract_python_symbols(text) == extract_declarations(text, 1, "def")

\* _extract_javascript_symbols: function_declaration nodes ("function" lines)
extract_javascript_symbols(text) == extract_declarations(text, 1, "function")

\* ASTParser._parse_symbols: [] without a loaded grammar; the placeholder
\* extractors of java, cpp, go and rust return [].
ast_parse_symbols(language, file_content, file_path) ==
    IF language \notin parsers THEN <<>>
    ELSE LET symbols == CASE language = "python" -> extract_python_symbols(file_content)
                          [] language \in {"javascript", "typescript"} ->
                                 extract_javascript_symbols(file_content)
                          [] OTHER -> <<>>
         IN  [i \in 1 .. Len(symbols) |->
                 symbols[i] @@ [file_path |-> file_path, language |-> language]]

\* ReferenceService._parse_symbols: the dispatch on the language tag
service_parse_symbols(language, file_content, file_path) ==
    CASE language = "python" -> ast_parse_symbols("python", file_content, file_path)
      [] language \in {"javascript", "typescript"} ->
             ast_parse_symbols("javascript", file_content, file_path)
      [] language \in {"java", "cpp", "go", "rust"} ->
             ast_parse_symbols(language, file_content, file_path)
      [] OTHER -> <<>>

\* ASTParser.find_enclosing_symbol_by_line: the first draft around the line
find_enclosing_symbol_by_line(symbols, line) ==
    LET around == SelectSeq(symbols, LAMBDA d : d.start_line <= line /\ line <= d.end_line)
    IN  IF Len(around) > 0 THEN around[1] ELSE None

\* ------------------------------------------------------------------ resolver
\* crud.symbol.get_by_file_and_line; end_line = 0 stands for a falsy end_line
symbol_get_by_file_and_line(project_id, file_path, start_line, end_line) ==
    SelectSeq(symbolTable,
              LAMBDA r : /\ r.project_id = project_id
                         /\ r.file_path = file_path
                         /\ IF end_line # 0
                            THEN r.start_line >= start_line /\ r.end_line <= end_line
                            ELSE r.start_line = start_line)

RECURSIVE InsertDescending(_, _)
\* sorted(..., key=similarity, reverse=True) is stable: x goes after its equals
InsertDescending(sorted, x) ==
    IF sorted = <<>> THEN <<x>>
    ELSE IF Head(sorted).similarity >= x.similarity
         THEN <<Head(sorted)>> \o InsertDescending(Tail(sorted), x)
         ELSE <<x>> \o sorted

RECURSIVE SortedBySimilarity(_)
SortedBySimilarity(entries) ==
    IF entries = <<>> THEN <<>>
    ELSE InsertDescending(SortedBySimilarity(SubSeq(entries, 1, Len(entries) - 1)),
                          entries[Len(entries)])

\* embedding_service.query_collection: the top_k best matches of the project's
\* namespace; only project 1 has vectors
query_collection(project_id, top_k) ==
    IF project_id = 1 THEN SubSeq(vectorMatches, 1, Min(top_k, Len(vectorMatches)))
    ELSE <<>>

\* file_path = "" stands for no file filter
semantic_find_symbols(project_id, file_path, top_k) ==
    LET results == query_collection(project_id, top_k)
        found == SelectSeq(results, LAMBDA m : symbol_get(m.symbol_id) # None)
        symbols == [i \in 1 .. Len(found) |->
                       [symbol |-> symbol_get(found[i].symbol_id),
                        similarity |-> 1 - found[i].distance]]
        in_file == IF file_path # ""
                   THEN SelectSeq(symbols, LAMBDA e : e.symbol.file_path = file_path)
                   ELSE symbols
        ranked == SortedBySimilarity(in_file)
    IN  SubSeq(ranked, 1, Min(top_k, Len(ranked)))

\* find_enclosing_symbol with a start line and no snippet text, as
\* resolve_snippet_to_symbol calls it: a persisted row, a draft, or None
find_enclosing_symbol(project_id, file_path, start_line, end_line) ==
    LET symbols == symbol_get_by_file_and_line(project_id, file_path, start_line, end_line)
        repo_path == get_repo_path(project_id)
        file_content == read_file_content(repo_path, file_path)
        drafts == service_parse_symbols(detect_language(file_path), file_content, file_path)
    IN  IF Len(symbols) > 0 THEN symbols[1]
        ELSE IF repo_path = None THEN None
        ELSE IF file_content = <<>> THEN None
        ELSE find_enclosing_symbol_by_line(drafts, start_line)

\* find_enclosing_symbol with snippet text and no start line: past the file read
\* it asks the semantic search; [0] of an empty result raises IndexError, which
\* the except clause turns into None.  The result is the search entry.
find_enclosing_symbol_by_snippet(project_id, file_path) ==
    LET repo_path == get_repo_path(project_id)
        file_content == read_file_content(repo_path, file_path)
        results == semantic_find_symbols(project_id, file_path, 1)
    IN  IF repo_path = None THEN None
        ELSE IF file_content = <<>> THEN None
        ELSE IF Len(results) > 0 THEN results[1] ELSE None

\* the fallback of resolve_snippet_to_symbol
semantic_top1(project_id, file_path) ==
    LET results == semantic_find_symbols(project_id, file_path, 1)
    IN  IF Len(results) > 0 THEN [id |-> results[1].symbol.id] ELSE None

\* a variant that asks the semantic search first
resolve_semantic_first(project_id, file_path, line_range) ==
    IF semantic_top1(project_id, file_path) # None THEN semantic_top1(project_id, file_path)
    ELSE IF line_range = None THEN None
    ELSE LET symbol == find_enclosing_symbol(project_id, file_path,
                                             line_range.start_line, line_range.end_line)
         IN  IF symbol # None /\ "id" \in DOMAIN symbol THEN [id |-> symbol.id] ELSE None

\* resolve_snippet_to_symbol: [id |-> n], or None.  symbol['id'] of a draft raises
\* KeyError, which the except clause turns into None.
resolve_snippet_to_symbol(project_id, file_path, line_range) ==
    LET symbol == IF line_range = None THEN None
                  ELSE find_enclosing_symbol(project_id, file_path,
                                             line_range.start_line, line_range.end_line)
    IN  IF symbol # None
        THEN IF "id" \in DOMAIN symbol THEN [id |-> symbol.id] ELSE None
        ELSE semantic_top1(project_id, file_path)

\* ------------------------------------------------------------------ resolver specification
ResolveRows ==
    {[project_id |-> 1, file_path |-> "a.py", symbol_name |-> "f",
      start_line |-> 1, end_line |-> 2],
     [project_id |-> 1, file_path |-> "a.py", symbol_name |-> "g",
      start_line |-> 2, end_line |-> 2],
     [project_id |-> 1, file_path |-> "b.js", symbol_name |-> "h",
      start_line |-> 1, end_line |-> 1]}
ResolveLines == {FileLine("def", "f", 1), FileLine("code", "f", 1)}
MatchChoices == {[symbol_id |-> 1, distance |-> 0], [symbol_id |-> 2, distance |-> 1],
                 [symbol_id |-> 3, distance |-> 0]}
LineRanges == {None} \cup {[start_line |-> a, end_line |-> b] :
                              a \in 1 .. MaxLines, b \in 0 .. MaxLines}

InitResolve ==
    /\ symbolTable \in {WithIds(rows) : rows \in SeqsUpTo(ResolveRows, MaxPersisted)}
    /\ referenceTable = <<>>
    /\ projects = {1}
    /\ repoFiles \in {[p \in {"a.py"} |-> text] : text \in SeqsUpTo(ResolveLines, MaxLines)}
    /\ parsers \in {{}, {"python", "javascript"}}
    /\ vectorMatches \in SeqsUpTo(MatchChoices, MaxMatches)
    /\ refsCall = None
    /\ packCall = None
    /\ resolveCall = None
    /\ findCall = None
    /\ rankCall = None
    /\ selectCall = None
    /\ jobTable = <<>>
    /\ chunkTable = <<>>
    /\ store = "up"
    /\ job = None
    /\ history = <<>>
    /\ workers = IdleWorkers

\* One call of resolve_snippet_to_symbol; project 2 does not exist.
ResolveSnippetToSymbol ==
    \E p \in {1, 2}, f \in {"a.py", "b.js"}, lr \in LineRanges :
        /\ resolveCall = None /\ findCall = None
        /\ resolveCall' = [project_id |-> p, file_path |-> f, line_range |-> lr,
                           result |-> resolve_snippet_to_symbol(p, f, lr)]
        /\ UNCHANGED <<storeVars, refsCall, packCall, findCall, rankCall>>

\* The caller takes the id.
ReturnResolved ==
    /\ resolveCall # None
    /\ resolveCall' = None
    /\ UNCHANGED <<storeVars, refsCall, packCall, findCall, rankCall>>

\* One call of find_enclosing_symbol; start_line = 0 stands for a call with
\* snippet text only, end_line = 0 for an omitted end line.
FindEnclosingSymbol ==
    \E p \in {1, 2}, f \in {"a.py", "b.js"}, a \in 0 .. MaxLines, b \in 0 .. MaxLines :
        /\ findCall = None /\ resolveCall = None
        /\ a = 0 => b = 0
        /\ findCall' = [project_id |-> p, file_path |-> f, start_line |-> a, end_line |-> b,
                        result |-> IF a = 0 THEN find_enclosing_symbol_by_snippet(p, f)
                                   ELSE find_enclosing_symbol(p, f, a, b)]
        /\ UNCHANGED <<storeVars, refsCall, packCall, resolveCall, rankCall>>

\* The caller takes the symbol.
ReturnEnclosing ==
    /\ findCall # None
    /\ findCall' = None
    /\ UNCHANGED <<storeVars, refsCall, packCall, resolveCall, rankCall>>

NextResolve ==
    ResolveSnippetToSymbol \/ ReturnResolved \/ FindEnclosingSymbol \/ ReturnEnclosing

SpecResolve == InitResolve /\ [][NextResolve]_vars

\* the persisted rows the line-range lookup of the call finds
PersistedForCall(call) ==
    IF call.line_range = None THEN <<>>
    ELSE symbol_get_by_file_and_line(call.project_id, call.file_path,
                                     call.line_range.start_line, call.line_range.end_line)

\* C9: when the line range resolves to a persisted symbol A, the result is A's id,
\* also when the semantic top-1 match is another symbol B.
C9_LineRangeWins ==
    (resolveCall # None /\ Len(PersistedForCall(resolveCall)) > 0)
        => resolveCall.result = [id |-> PersistedForCall(resolveCall)[1].id]

\* the line range resolved to A while the semantic top-1 match was another symbol B
C9_Witness ==
    /\ resolveCall # None
    /\ Len(PersistedForCall(resolveCall)) > 0
    /\ semantic_top1(resolveCall.project_id, resolveCall.file_path) # None
    /\ semantic_top1(resolveCall.project_id, resolveCall.file_path)
           # [id |-> PersistedForCall(resolveCall)[1].id]
    /\ resolveCall.result = [id |-> PersistedForCall(resolveCall)[1].id]

Timestamp == [iso |-> "now"]

\* the empty dict {} a job is created with
EmptyDict == [empty |-> TRUE]

\* CRUDBase.create on a table whose store answers: the row gets the next serial id
crud_create(table, data) == Append(table, [id |-> Len(table) + 1] @@ data)

\* CRUDBase.update on a table whose store answers: the columns of data overwrite
crud_update(table, id, data) ==
    [i \in 1 .. Len(table) |-> IF table[i].id = id THEN data @@ table[i] ELSE table[i]]

\* a lookup on another column pair
get_by_unique_on_end_line(table, project_id, file_path, symbol_name, start_line) ==
    LET found == SelectSeq(table, LAMBDA r : /\ r.project_id = project_id
                                             /\ r.file_path = file_path
                                             /\ r.symbol_name = symbol_name
                                             /\ r.end_line = start_line)
    IN  IF Len(found) > 0 THEN found[1] ELSE None

\* crud.symbol.get_by_unique
get_by_unique(table, project_id, file_path, symbol_name, start_line) ==
    LET found == SelectSeq(table, LAMBDA r : /\ r.project_id = project_id
                                             /\ r.file_path = file_path
                                             /\ r.symbol_name = symbol_name
                                             /\ r.start_line = start_line)
    IN  IF Len(found) > 0 THEN found[1] ELSE None

\* _upsert_symbol; with the store down get_by_unique and create both yield None.
\* The update path writes the id into the draft itself.
upsert_symbol(table, symbol_data, up) ==
    LET existing == get_by_unique(table, symbol_data.project_id, symbol_data.file_path,
                                  symbol_data.symbol_name, symbol_data.start_line)
        with_id == [id |-> existing.id] @@ symbol_data
    IN  IF ~up THEN [table |-> table, symbol_id |-> None, symbol_data |-> symbol_data]
        ELSE IF existing # None
        THEN [table |-> crud_update(table, existing.id, with_id),
              symbol_id |-> [id |-> existing.id], symbol_data |-> with_id]
        ELSE [table |-> crud_create(table, symbol_data),
              symbol_id |-> [id |-> Len(table) + 1], symbol_data |-> symbol_data]

\* _index_symbol_chunks: one chunk row; the embedding upsert that follows raises
\* (EmbeddingService has no upsert_symbol_embedding) and the handler swallows it,
\* so no embedding metadata row is written.
index_symbol_chunks(chunks, symbol_id, symbol_data, up) ==
    IF up
    THEN crud_create(chunks, [symbol_id |-> symbol_id, chunk_index |-> 0,
                              start_line |-> symbol_data.start_line,
                              end_line |-> symbol_data.end_line,
                              token_count |-> symbol_data.token_count_estimate])
    ELSE chunks

\* _extract_references: the lines that mention the symbol's name and do not start
\* with def; the name is found only on a draft that carries the id.
extract_references(symbol_id, content, file_path, all_symbols) ==
    LET named == SelectSeq(all_symbols, LAMBDA d : "id" \in DOMAIN d /\ d.id = symbol_id)
        usage(n) == content[n].name = named[1].symbol_name /\ content[n].kind # "def"
        line_nums == SelectSeq([n \in 1 .. Len(content) |-> n], usage)
    IN  IF Len(named) = 0 THEN <<>>
        ELSE [k \in 1 .. Len(line_nums) |->
                 [from_symbol_id |-> symbol_id, to_symbol_id |-> symbol_id,
                  reference_type |-> "usage", file_path |-> file_path,
                  line |-> line_nums[k]]]

RECURSIVE create_all(_, _, _)
\* crud.reference.create for each extracted reference
create_all(table, rows, i) ==
    IF i > Len(rows) THEN table ELSE create_all(crud_create(table, rows[i]), rows, i + 1)

RECURSIVE process_symbols(_, _, _, _, _)
\* the loop of _process_single_file over the parsed drafts
process_symbols(st, i, project_id, commit_hash, content) ==
    IF i > Len(st.symbols) THEN st
    ELSE LET d == st.symbols[i]
             symbol_data == d @@ [project_id |-> project_id, commit_hash |-> commit_hash,
                                  token_count_estimate |->
                                      estimate_tokens(Slice(content, d.start_line, d.end_line))]
             up == upsert_symbol(st.symbolTable, symbol_data, st.up)
             symbols == [st.symbols EXCEPT ![i] = up.symbol_data]
             references == extract_references(up.symbol_id.id, content, d.file_path, symbols)
         IN  IF up.symbol_id = None
             THEN process_symbols([st EXCEPT !.symbols = symbols], i + 1,
                                  project_id, commit_hash, content)
             ELSE process_symbols(
                      [st EXCEPT !.symbols = symbols,
                                 !.symbolTable = up.table,
                                 !.chunkTable = index_symbol_chunks(st.chunkTable, up.symbol_id.id,
                                                                    symbol_data, st.up),
                                 !.referenceTable = IF st.up
                                                    THEN create_all(st.referenceTable, references, 1)
                                                    ELSE st.referenceTable,
                                 !.stats.symbols_found = @ + 1,
                                 !.stats.references_found = @ + Len(references)],
                      i + 1, project_id, commit_hash, content)

\* _process_single_file: a file of unknown language is left alone; every other
\* file goes to the python parser.
process_single_file(st, project_id, file_path, content, commit_hash) ==
    IF detect_language(file_path) = "unknown" THEN st
    ELSE process_symbols([st EXCEPT !.symbols = ast_parse_symbols("python", content, file_path)],
                         1, project_id, commit_hash, content)

\* the suffixes find_code_files looks for, in its order
FindExtensions == <<".py", ".js", ".ts", ".java", ".cpp", ".c", ".h", ".hpp", ".go", ".rs",
                    ".rb", ".php">>

\* the order in which a directory walk meets the files
WalkOrder == <<"a.py", "b.js", "c.rb", "d.py">>

RECURSIVE find_code_files(_, _)
\* find_code_files: per suffix, the files of the repository with that suffix
find_code_files(files, e) ==
    IF e > Len(FindExtensions) THEN <<>>
    ELSE SelectSeq(WalkOrder, LAMBDA f : f \in files /\ FileSuffix[f] = FindExtensions[e])
         \o find_code_files(files, e + 1)

\* _is_code_file
is_code_file(file_path) ==
    FileSuffix[file_path] \in {".py", ".js", ".jsx", ".ts", ".tsx", ".java", ".cpp", ".cc",
                               ".cxx", ".h", ".hpp", ".go", ".rs"}

\* a file list that follows changed_files whenever there is one
select_code_files_ignoring_force(changed_files, force_full_reindex) ==
    IF changed_files = <<>>
    THEN find_code_files(DOMAIN repoFiles, 1)
    ELSE SelectSeq(changed_files, is_code_file)

\* a file list that is always the whole repository
select_code_files_always_full(changed_files, force_full_reindex) ==
    find_code_files(DOMAIN repoFiles, 1)

\* the file list of a run: the whole repository, or the changed code files
select_code_files(changed_files, force_full_reindex) ==
    IF force_full_reindex \/ changed_files = <<>>
    THEN find_code_files(DOMAIN repoFiles, 1)
    ELSE SelectSeq(changed_files, is_code_file)

\* a loop that goes on with the next file and never closes a batch
next_after_file_without_update(file_faulted, last) == "batch"

\* a loop that gives up on a fault in a file
next_after_file_aborting(file_faulted, last) ==
    IF file_faulted THEN "failing" ELSE IF last THEN "progress" ELSE "batch"

\* the loop of _process_file_batch after a file: whatever happened inside
\* _process_single_file, it goes on with the next file, and after the last file
\* of the batch the progress update follows
next_after_file(file_faulted, last) ==
    IF last THEN "progress" ELSE "batch"

\* a progress update without the counters
progress_updates_without_stats(stats, done, total) ==
    [status |-> "processing", stats |-> EmptyDict,
     progress |-> [done |-> done, total |-> total]]

\* a progress update that resets the status
progress_updates_pending(stats, done, total) ==
    [status |-> "pending", stats |-> stats, progress |-> [done |-> done, total |-> total]]

\* the update written after a batch
progress_updates(stats, done, total) ==
    [status |-> "processing", stats |-> stats, progress |-> [done |-> done, total |-> total]]

\* a completion update that keeps the status
completed_updates_processing(stats) ==
    [status |-> "processing", stats |-> stats, finished_at |-> Timestamp]

\* the update written when all batches are through
completed_updates(stats) ==
    [status |-> "completed", stats |-> stats, finished_at |-> Timestamp]

\* the update written by the except clause
failed_updates(e) ==
    [status |-> "failed", last_error |-> e, finished_at |-> Timestamp]

\* _create_indexing_job: the new table and the id, None when the insert failed
create_indexing_job(table, project_id, status, up) ==
    IF up
    THEN [table |-> crud_create(table, [project_id |-> project_id, status |-> status,
                                        started_at |-> Timestamp, stats |-> EmptyDict,
                                        progress |-> None, last_error |-> None,
                                        finished_at |-> None]),
          job_id |-> [id |-> Len(table) + 1]]
    ELSE [table |-> table, job_id |-> None]

\* _update_indexing_job: a failed update is swallowed; no row has the id None
update_indexing_job(table, job_id, updates, up) ==
    IF up /\ job_id # None THEN crud_update(table, job_id.id, updates) ELSE table

\* ------------------------------------------------------------------ indexing specification
\* the texts of a.py: a function and a use of it, the same with a second function,
\* and two functions of one name
JobTexts == {<<FileLine("def", "f", 1), FileLine("code", "f", 1)>>,
             <<FileLine("def", "f", 1), FileLine("code", "f", 1), FileLine("def", "g", 1)>>,
             <<FileLine("def", "f", 1), FileLine("def", "f", 1)>>}
JobRepositories ==
    {[p \in {"a.py", "b.js", "c.rb"} |->
         CASE p = "a.py" -> text
           [] p = "b.js" -> <<FileLine("function", "h", 1)>>
           [] OTHER -> <<FileLine("code", "r", 1)>>] : text \in JobTexts}
ChangedFilesChoices == {<<>>, <<"a.py", "c.rb", "d.py">>}
CommitHashes == {None, [hash |-> "c1"]}

InitJob ==
    /\ symbolTable = <<>>
    /\ referenceTable = <<>>
    /\ projects = {1}
    /\ repoFiles \in JobRepositories
    /\ parsers = {"python", "javascript"}
    /\ vectorMatches = <<>>
    /\ refsCall = None
    /\ packCall = None
    /\ resolveCall = None
    /\ findCall = None
    /\ rankCall = None
    /\ selectCall = None
    /\ jobTable = <<>>
    /\ chunkTable = <<>>
    /\ store = "up"
    /\ job = None
    /\ history = <<>>
    /\ workers = IdleWorkers

jobFrame == <<projects, repoFiles, parsers, vectorMatches, refsCall, packCall, resolveCall,
              findCall, rankCall, workers, selectCall>>

\* index_project_symbols is called; line 24 creates the job row.  Project 2 does
\* not exist; changed_files = <<>> stands for None and for the empty list.
StartJob ==
    \E p \in {1, 2}, cf \in ChangedFilesChoices, force \in BOOLEAN, ch \in CommitHashes :
        LET created == create_indexing_job(jobTable, p, "processing", storeUp)
        IN  /\ job = None
            /\ Len(history) < MaxRuns
            /\ jobTable' = created.table
            /\ job' = [pc |-> "get_project", project_id |-> p, changed_files |-> cf,
                       force_full_reindex |-> force, commit_hash |-> ch,
                       job_id |-> created.job_id, code_files |-> <<>>, i |-> 0, k |-> 1,
                       stats |-> EmptyDict, error |-> None,
                       faulted |-> ~storeUp, processed_after_fault |-> FALSE,
                       symbols_before |-> symbolTable,
                       faulty_files |-> 0, other_fault |-> ~storeUp,
                       batch_stats |-> EmptyDict, read_files |-> <<>>,
                       embedding_failures |-> 0]
            /\ UNCHANGED <<symbolTable, referenceTable, chunkTable, store, history, jobFrame>>

\* lines 26-45: the project lookup, the file list and the zeroed counters
GetProject ==
    /\ job # None /\ job.pc = "get_project"
    /\ IF storeUp /\ job.project_id \in projects
       THEN LET code_files == select_code_files(job.changed_files, job.force_full_reindex)
            IN  job' = [job EXCEPT !.pc = IF Len(code_files) = 0 THEN "completing" ELSE "batch",
                                   !.code_files = code_files,
                                   !.stats = [total_files |-> Len(code_files),
                                              files_processed |-> 0, symbols_found |-> 0,
                                              references_found |-> 0, errors |-> 0]]
       ELSE job' = [job EXCEPT !.pc = "failing",
                               !.error = [message |-> "Project not found"],
                               !.faulted = @ \/ ~storeUp,
                               !.other_fault = @ \/ ~storeUp]
    /\ UNCHANGED <<symbolTable, referenceTable, jobTable, chunkTable, store, history, jobFrame>>

\* One turn of the loop of _process_file_batch: the k-th file of the batch that
\* starts at i.  read_code_files leaves out a file that is not in the repository.
ProcessFile ==
    /\ job # None /\ job.pc = "batch"
    /\ LET file_path == job.code_files[job.i + job.k]
           present == file_path \in DOMAIN repoFiles
           st0 == [symbolTable |-> symbolTable, chunkTable |-> chunkTable,
                   referenceTable |-> referenceTable, stats |-> job.stats,
                   symbols |-> <<>>, up |-> storeUp]
           st == IF present
                 THEN process_single_file(st0, job.project_id, file_path,
                                          repoFiles[file_path], job.commit_hash)
                 ELSE st0
           last == job.k = BatchSize \/ job.i + job.k = Len(job.code_files)
           stats == IF present THEN [st.stats EXCEPT !.files_processed = @ + 1] ELSE st.stats
           file_faulted == ~storeUp /\ Len(st.symbols) > 0
       IN  /\ symbolTable' = st.symbolTable
           /\ chunkTable' = st.chunkTable
           /\ referenceTable' = st.referenceTable
           /\ job' = [job EXCEPT !.stats = stats,
                                 !.k = IF last THEN 1 ELSE @ + 1,
                                 !.pc = next_after_file(file_faulted, last),
                                 !.faulted = @ \/ file_faulted,
                                 !.processed_after_fault = @ \/ job.faulted,
                                 !.faulty_files = IF file_faulted THEN @ + 1 ELSE @,
                                 !.batch_stats = IF last THEN stats ELSE @,
                                 !.read_files = IF present THEN Append(@, file_path) ELSE @,
                                 !.embedding_failures = @ + Len(st.chunkTable) - Len(chunkTable)]
    /\ UNCHANGED <<jobTable, store, history, jobFrame>>

\* lines 53-57: the progress update that closes a batch
UpdateProgress ==
    /\ job # None /\ job.pc = "progress"
    /\ LET total == Len(job.code_files)
           more == job.i + BatchSize < total
       IN  /\ jobTable' = update_indexing_job(jobTable, job.job_id,
                              progress_updates(job.stats, Min(job.i + BatchSize, total), total),
                              storeUp)
           /\ job' = [job EXCEPT !.i = @ + BatchSize,
                                 !.pc = IF more THEN "batch" ELSE "completing",
                                 !.faulted = @ \/ ~storeUp,
                                 !.other_fault = @ \/ ~storeUp]
    /\ UNCHANGED <<symbolTable, referenceTable, chunkTable, store, history, jobFrame>>

\* lines 60-66: the job is marked completed and the call returns
Complete ==
    /\ job # None /\ job.pc = "completing"
    /\ jobTable' = update_indexing_job(jobTable, job.job_id, completed_updates(job.stats), storeUp)
    /\ job' = [job EXCEPT !.pc = "returned", !.faulted = @ \/ ~storeUp,
                          !.other_fault = @ \/ ~storeUp]
    /\ UNCHANGED <<symbolTable, referenceTable, chunkTable, store, history, jobFrame>>

\* lines 68-75: the except clause marks the job failed and re-raises
Fail ==
    /\ job # None /\ job.pc = "failing"
    /\ jobTable' = update_indexing_job(jobTable, job.job_id, failed_updates(job.error), storeUp)
    /\ job' = [job EXCEPT !.pc = "raised", !.faulted = @ \/ ~storeUp,
                          !.other_fault = @ \/ ~storeUp]
    /\ UNCHANGED <<symbolTable, referenceTable, chunkTable, store, history, jobFrame>>

\* The caller has the outcome; the next call may start.
ReturnJob ==
    /\ job # None /\ job.pc \in {"returned", "raised"}
    /\ history' = Append(history, [project_id |-> job.project_id,
                                   files |-> {job.code_files[n] : n \in 1 .. Len(job.code_files)},
                                   clean |-> job.pc = "returned" /\ ~job.faulted])
    /\ job' = None
    /\ UNCHANGED <<symbolTable, referenceTable, jobTable, chunkTable, store, jobFrame>>

\* The store stops answering; a behaviour has one outage.
StoreGoesDown ==
    /\ store = "up"
    /\ store' = "down"
    /\ UNCHANGED <<symbolTable, referenceTable, jobTable, chunkTable, job, history, jobFrame>>

\* The store answers again.
StoreComesBack ==
    /\ store = "down"
    /\ store' = "restored"
    /\ UNCHANGED <<symbolTable, referenceTable, jobTable, chunkTable, job, history, jobFrame>>

NextJob ==
    \/ StartJob \/ GetProject \/ ProcessFile \/ UpdateProgress \/ Complete \/ Fail
    \/ ReturnJob \/ StoreGoesDown \/ StoreComesBack

SpecJob == InitJob /\ [][NextJob]_vars

Ended == job # None /\ job.pc \in {"returned", "raised"}

\* the row of the running call's job, None when the insert failed
JobRow == IF job.job_id = None THEN None ELSE jobTable[job.job_id.id]

\* C3: a job's persisted status only moves Processing -> {Completed, Failed}: the
\* row is created in Processing (no Pending status is ever written), and once the
\* status is Completed or Failed no later step changes it.
C3_StatusMoves ==
    [][/\ Len(jobTable') >= Len(jobTable)
       /\ \A n \in 1 .. Len(jobTable') :
              IF n <= Len(jobTable)
              THEN \/ jobTable'[n].status = jobTable[n].status
                   \/ /\ jobTable[n].status = "processing"
                      /\ jobTable'[n].status \in {"completed", "failed"}
              ELSE jobTable'[n].status = "processing"]_vars

\* the statement with the Pending state: a row is created in Pending, moves to
\* Processing and from there to Completed or Failed
C3_PendingFirst ==
    [][/\ Len(jobTable') >= Len(jobTable)
       /\ \A n \in 1 .. Len(jobTable') :
              IF n <= Len(jobTable)
              THEN \/ jobTable'[n].status = jobTable[n].status
                   \/ /\ jobTable[n].status = "pending"
                      /\ jobTable'[n].status = "processing"
                   \/ /\ jobTable[n].status = "processing"
                      /\ jobTable'[n].status \in {"completed", "failed"}
              ELSE jobTable'[n].status = "pending"]_vars

\* one job has ended Completed and another Failed
C3_Witness ==
    /\ \E n \in 1 .. Len(jobTable) : jobTable[n].status = "completed"
    /\ \E n \in 1 .. Len(jobTable) : jobTable[n].status = "failed"

\* C4: when a job-level fault occurs (the project does not exist, or the store is
\* unavailable to one of the call's store operations), no further file is
\* processed, the job's row ends Failed with last_error and finished_at set, and
\* the exception is re-raised.
C4_JobFaultFailsJob ==
    (Ended /\ (job.faulted \/ job.project_id \notin projects))
        => /\ job.pc = "raised"
           /\ ~job.processed_after_fault
           /\ JobRow # None
           /\ JobRow.status = "failed"
           /\ JobRow.last_error # None
           /\ JobRow.finished_at # None

\* C5: when the call gets through all batches without a job-level fault, the job's
\* row ends Completed with finished_at set and stats equal to the counters after
\* the last batch; a call without a fault on an existing project returns normally
\* and never leaves the row in Processing.
C5_CompletedWithStats ==
    (Ended /\ ~job.faulted /\ job.project_id \in projects)
        => /\ job.pc = "returned"
           /\ JobRow # None
           /\ JobRow.status = "completed"
           /\ JobRow.finished_at # None
           /\ JobRow.stats = job.stats

\* a fault-free run over more than one batch has returned with symbols found
C5_Witness ==
    /\ Ended /\ ~job.faulted /\ job.pc = "returned"
    /\ Len(job.code_files) > BatchSize
    /\ job.stats.symbols_found > 0
    /\ JobRow.status = "completed"

IdsAndKeys(table) ==
    [n \in 1 .. Len(table) |-> <<table[n].id, table[n].project_id, table[n].file_path,
                                 table[n].symbol_name, table[n].start_line>>]

NoDuplicateKeys(table) ==
    \A m, n \in 1 .. Len(table) :
        (/\ table[m].project_id = table[n].project_id
         /\ table[m].file_path = table[n].file_path
         /\ table[m].symbol_name = table[n].symbol_name
         /\ table[m].start_line = table[n].start_line) => m = n

\* the run that has just ended repeats, without a fault, files that the run
\* before it indexed without a fault
Reindexed ==
    /\ Ended /\ job.pc = "returned" /\ ~job.faulted
    /\ Len(history) > 0
    /\ history[Len(history)].clean
    /\ history[Len(history)].project_id = job.project_id
    /\ {job.code_files[n] : n \in 1 .. Len(job.code_files)} \subseteq history[Len(history)].files

\* C6: indexing the same unchanged files twice in sequence leaves the Symbol table
\* as the first run left it: same row count, same ids, same keys, and no two rows
\* with the same (project_id, file_path, symbol_name, start_line).
C6_ReindexIsIdempotent ==
    Reindexed => /\ IdsAndKeys(symbolTable) = IdsAndKeys(job.symbols_before)
                 /\ NoDuplicateKeys(symbolTable)

\* the second run met rows of the first and updated them in place
C6_Witness ==
    /\ Reindexed
    /\ job.stats.symbols_found > 0
    /\ Len(symbolTable) > 0
    /\ IdsAndKeys(symbolTable) = IdsAndKeys(job.symbols_before)

\* the persisted rows of the call's project and file whose span contains the
\* queried range, an omitted end line standing for the start line
ContainingRows(call) ==
    LET q_end == IF call.end_line = 0 THEN call.start_line ELSE call.end_line
    IN  SelectSeq(symbolTable, LAMBDA r : /\ r.project_id = call.project_id
                                          /\ r.file_path = call.file_path
                                          /\ r.start_line <= call.start_line
                                          /\ q_end <= r.end_line)

\* C11: whenever find_enclosing_symbol, called with a line range, returns a
\* persisted Symbol, that symbol is of the given project and file and its span
\* contains the queried range; and whenever such a persisted symbol exists, a
\* persisted symbol is returned.
C11_EnclosingContains ==
    (/\ findCall # None /\ findCall.start_line # 0
     /\ (findCall.end_line = 0 \/ findCall.end_line >= findCall.start_line))
        => /\ "id" \in DOMAIN findCall.result
                => \E n \in 1 .. Len(ContainingRows(findCall)) :
                       ContainingRows(findCall)[n] = findCall.result
           /\ Len(ContainingRows(findCall)) > 0 => "id" \in DOMAIN findCall.result

\* C12: a read operation called for an absent project, symbol or file gives an
\* empty or null result and raises nothing; here build_reference_pack called
\* with the id of a symbol that is not persisted.
C12_AbsenceNeverRaises ==
    (packCall # None /\ symbol_get(packCall.symbol_id) = None)
        => "exception" \notin DOMAIN packCall.outcome

\* the files of the run's list that are in the repository, in list order
PresentFiles == SelectSeq(job.code_files, LAMBDA f : f \in DOMAIN repoFiles)

\* C13: a fault while one file is processed never aborts the batch or the job:
\* when the only faults of a run are store faults inside files, every file of the
\* list is still processed and the job ends Completed.
C13_FileFaultIsolated ==
    (Ended /\ job.project_id \in projects /\ ~job.other_fault)
        => /\ job.pc = "returned"
           /\ job.read_files = PresentFiles
           /\ job.stats.files_processed = Len(PresentFiles)
           /\ JobRow.status = "completed"

\* a run in which a file hit the store outage, later files were processed, and
\* the job ended Completed
C13_Witness ==
    /\ Ended /\ ~job.other_fault
    /\ job.faulty_files > 0
    /\ job.processed_after_fault
    /\ job.read_files = PresentFiles
    /\ JobRow.status = "completed"

\* C14: every file that had a fault during indexing is counted in errors: at
\* the end of the job errors is at least the number of files with a fault.
C14_ErrorsCountFaults ==
    (Ended /\ job.pc = "returned") => job.stats.errors >= job.faulty_files

C16_StatsPersistedPerBatch ==
    (job # None /\ ~job.faulted /\ job.pc \in {"batch", "completing"})
        => JobRow.stats = job.batch_stats

\* the first batch is through, found symbols, and its counters are persisted
\* while the next batch is still to come
C16_Witness ==
    /\ job # None /\ ~job.faulted /\ job.pc = "batch" /\ job.i > 0
    /\ job.batch_stats.symbols_found > 0
    /\ job.batch_stats.files_processed = BatchSize
    /\ JobRow.stats = job.batch_stats

\* the run is incremental and its file list is made
Incremental ==
    /\ job # None
    /\ job.pc \in {"batch", "progress", "completing", "returned"}
    /\ job.changed_files # <<>> /\ ~job.force_full_reindex

\* C17: in incremental mode the file list is the changed files with a code
\* extension, total_files is its length, and no file outside changed_files is read.
C17_IncrementalFileSet ==
    Incremental
        => /\ job.code_files = SelectSeq(job.changed_files, is_code_file)
           /\ job.stats.total_files = Len(job.code_files)
           /\ \A n \in 1 .. Len(job.read_files) :
                  \E m \in 1 .. Len(job.changed_files) :
                      job.read_files[n] = job.changed_files[m]

\* an incremental run has ended that read a changed file, dropped a listed file
\* without a code extension, and left a code file of the repository unread
C17_Witness ==
    /\ Incremental /\ job.pc = "returned"
    /\ Len(job.read_files) > 0
    /\ Len(job.code_files) < Len(job.changed_files)
    /\ "b.js" \in DOMAIN repoFiles
    /\ \A n \in 1 .. Len(job.read_files) : job.read_files[n] # "b.js"

\* the chunk rows of a symbol
ChunksOf(symbol_id) == {c \in 1 .. Len(chunkTable) : chunkTable[c].symbol_id = symbol_id}

C19_EachReferenceOnce ==
    refsCall # None
        => /\ \A i, j \in 1 .. Len(refsCall.result) :
                  refsCall.result[i].reference.id = refsCall.result[j].reference.id => i = j
           /\ Len(refsCall.result) <= Len(referenceTable)

\* a call that went into the recursion, met an edge back to its anchor, and
\* ended below the cap
C19_Witness ==
    /\ refsCall # None
    /\ refsCall.max_depth >= 1
    /\ Len(refsCall.result) < refsCall.max_references
    /\ \E i \in 1 .. Len(refsCall.result) :
           refsCall.result[i].reference.to_symbol_id = refsCall.symbol_id

\* ------------------------------------------------------------------ retrieval during indexing
\* no retrieval call is waiting for its caller, and the store answers queries
NoCallOpen ==
    /\ refsCall = None /\ packCall = None /\ resolveCall = None /\ findCall = None
    /\ storeUp

\* a get_symbol_references that also clears the table it read
ReferencesDuringJobConsuming ==
    /\ NoCallOpen
    /\ refsCall' = [symbol_id |-> 1, max_depth |-> PackMaxDepth,
                    max_references |-> MaxReferencesDefault,
                    result |-> get_symbol_references(1, PackMaxDepth, MaxReferencesDefault)]
    /\ referenceTable' = <<>>
    /\ UNCHANGED <<symbolTable, projects, repoFiles, parsers, vectorMatches, jobTable,
                   chunkTable, store, job, history, workers, packCall, resolveCall, findCall,
                   rankCall, selectCall>>

\* get_symbol_references for symbol 1, at any point of an indexing run or between
\* runs; the call only selects from the symbols and references tables
ReferencesDuringJob ==
    /\ NoCallOpen
    /\ refsCall' = [symbol_id |-> 1, max_depth |-> PackMaxDepth,
                    max_references |-> MaxReferencesDefault,
                    result |-> get_symbol_references(1, PackMaxDepth, MaxReferencesDefault)]
    /\ UNCHANGED <<storeVars, packCall, resolveCall, findCall, rankCall>>

\* build_reference_pack for symbol 1
PackDuringJob ==
    /\ NoCallOpen
    /\ packCall' = [symbol_id |-> 1, token_budget |-> MaxBudget,
                    candidates |-> Len(get_symbol_references(1, PackMaxDepth,
                                                             MaxReferencesDefault)),
                    similar_errors |-> 0,
                    outcome |-> build_reference_pack(1, MaxBudget, <<>>)]
    /\ UNCHANGED <<storeVars, refsCall, resolveCall, findCall, rankCall>>

\* resolve_snippet_to_symbol for the first line of a.py
ResolveDuringJob ==
    /\ NoCallOpen
    /\ resolveCall' = [project_id |-> 1, file_path |-> "a.py",
                       line_range |-> [start_line |-> 1, end_line |-> 0],
                       result |-> resolve_snippet_to_symbol(
                                      1, "a.py", [start_line |-> 1, end_line |-> 0])]
    /\ UNCHANGED <<storeVars, refsCall, packCall, findCall, rankCall>>

\* find_enclosing_symbol for the first line of a.py
EnclosingDuringJob ==
    /\ NoCallOpen
    /\ findCall' = [project_id |-> 1, file_path |-> "a.py", start_line |-> 1, end_line |-> 0,
                    result |-> find_enclosing_symbol(1, "a.py", 1, 0)]
    /\ UNCHANGED <<storeVars, refsCall, packCall, resolveCall, rankCall>>

\* a retrieval is one step between two steps of the job: its caller takes the
\* result before the job or the store moves again
NextMixed ==
    \/ /\ refsCall = None /\ packCall = None /\ resolveCall = None /\ findCall = None
       /\ \/ StartJob \/ GetProject \/ ProcessFile \/ UpdateProgress \/ Complete \/ Fail
          \/ ReturnJob \/ StoreGoesDown \/ StoreComesBack
    \/ ReferencesDuringJob \/ PackDuringJob \/ ResolveDuringJob \/ EnclosingDuringJob
    \/ ReturnReferences \/ ReturnPack \/ ReturnResolved \/ ReturnEnclosing

SpecMixed == InitJob /\ [][NextMixed]_vars

\* C18: a step in which a retrieval operation is called or returns leaves every
\* Symbol, SymbolChunk, Reference and IndexingJob row as it was, also while an
\* indexing job is in flight.
C18_RetrievalIsReadOnly ==
    [][(refsCall' # refsCall \/ packCall' # packCall \/ resolveCall' # resolveCall
            \/ findCall' # findCall)
        => UNCHANGED <<symbolTable, chunkTable, referenceTable, jobTable>>]_vars

\* references of symbol 1 were retrieved between two files of a running job
C18_Witness ==
    /\ job # None /\ job.pc \in {"batch", "progress"}
    /\ refsCall # None
    /\ Len(refsCall.result) > 0
    /\ Len(symbolTable) > 0

\* ------------------------------------------------------------------ usage references
\* the lines of a symbol's file that contain its name, its declaration header aside
UsageLines(row) ==
    {n \in 1 .. Len(repoFiles[row.file_path]) :
        repoFiles[row.file_path][n].name = row.symbol_name /\ n # row.start_line}

\* the rows of the symbols the ended run upserted
UpsertedRows ==
    SelectSeq(symbolTable, LAMBDA r : /\ r.project_id = job.project_id
                                      /\ \E n \in 1 .. Len(job.read_files) :
                                             job.read_files[n] = r.file_path)

RECURSIVE SumUsageLines(_, _)
SumUsageLines(rows, i) ==
    IF i > Len(rows) THEN 0 ELSE Cardinality(UsageLines(rows[i])) + SumUsageLines(rows, i + 1)

\* a run that met no fault has returned
CleanRun == Ended /\ job.pc = "returned" /\ ~job.faulted

StartRepeat ==
    \E cf \in ChangedFilesChoices, force \in BOOLEAN, ch \in CommitHashes :
        LET created == create_indexing_job(jobTable, 1, "processing", storeUp)
        IN  /\ job = None
            /\ Len(history) < MaxRepeats
            /\ jobTable' = created.table
            /\ job' = [pc |-> "get_project", project_id |-> 1, changed_files |-> cf,
                       force_full_reindex |-> force, commit_hash |-> ch,
                       job_id |-> created.job_id, code_files |-> <<>>, i |-> 0, k |-> 1,
                       stats |-> EmptyDict, error |-> None,
                       faulted |-> FALSE, processed_after_fault |-> FALSE,
                       symbols_before |-> symbolTable,
                       faulty_files |-> 0, other_fault |-> FALSE,
                       batch_stats |-> EmptyDict, read_files |-> <<>>,
                       embedding_failures |-> 0]
            /\ UNCHANGED <<symbolTable, referenceTable, chunkTable, store, history, jobFrame>>

NextRepeat ==
    \/ StartRepeat \/ GetProject \/ ProcessFile \/ UpdateProgress \/ Complete \/ ReturnJob

SpecRepeat == InitJob /\ [][NextRepeat]_vars

C23_BatchesInSequence ==
    [][/\ (job # None /\ job.pc = "get_project" /\ job' # None /\ job'.pc = "batch")
           => job'.i = 0 /\ job'.k = 1
       /\ (job # None /\ job.pc = "batch")
           => /\ job.i % BatchSize = 0
              /\ job.k \in 1 .. BatchSize
              /\ job.i + job.k <= Len(job.code_files)
              /\ (job.i > 0 /\ ~job.faulted)
                     => /\ JobRow.progress = [done |-> job.i, total |-> Len(job.code_files)]
                        /\ job.k = 1 => JobRow.stats = job.stats
              /\ job' # None
              /\ \/ /\ job'.pc = "batch"
                    /\ job'.i = job.i /\ job'.k = job.k + 1
                 \/ /\ job'.pc = "progress"
                    /\ job'.i = job.i
                    /\ job.i + job.k = Min(job.i + BatchSize, Len(job.code_files))
       /\ (job # None /\ job.pc = "progress")
           => /\ job' # None
              /\ job'.i = job.i + BatchSize
              /\ job'.pc = "batch" => job'.k = 1 /\ job'.i < Len(job.code_files)
              /\ job'.pc # "batch" => job'.pc = "completing" /\ job'.i >= Len(job.code_files)
      ]_<<job, jobTable>>

\* the first file of the second batch is about to be processed, the stats of the
\* first batch are in the job's row
C23_Witness ==
    /\ job # None /\ job.pc = "batch" /\ ~job.faulted
    /\ job.i = BatchSize /\ job.k = 1
    /\ JobRow.progress = [done |-> BatchSize, total |-> Len(job.code_files)]
    /\ JobRow.stats.files_processed = BatchSize

\* ------------------------------------------------------------------ greedy scan of the pack
\* the candidates of the call, in the traversal order of get_symbol_references
Candidates(call) == get_symbol_references(call.symbol_id, PackMaxDepth, MaxReferencesDefault)

\* the token estimate of the i-th candidate
CandidateTokens(call, i) == estimate_tokens(get_reference_content(Candidates(call)[i]))

RECURSIVE RunningTotal(_, _)
\* the running token total after the first i candidates: the definition's tokens
\* and the tokens of every candidate that fitted when its turn came
RunningTotal(call, i) ==
    IF i = 0 THEN call.outcome.definition.token_count
    ELSE IF RunningTotal(call, i - 1) + CandidateTokens(call, i) <= call.token_budget
         THEN RunningTotal(call, i - 1) + CandidateTokens(call, i)
         ELSE RunningTotal(call, i - 1)

\* the i-th candidate fits when its turn comes
Fits(call, i) == RunningTotal(call, i - 1) + CandidateTokens(call, i) <= call.token_budget

\* the positions of the candidates that fit, ascending
FittingPositions(call) ==
    SelectSeq([i \in 1 .. Len(Candidates(call)) |-> i], LAMBDA i : Fits(call, i))

\* C24: the references of a pack are the candidates of
\* get_symbol_references(symbol, max_depth = 2) that fit when their turn comes
\* (running total plus own estimate <= token_budget), in traversal order; a
\* candidate that does not fit is passed over and the scan goes on.
C24_GreedyInTraversalOrder ==
    Returned(packCall)
        => packCall.outcome.references
               = [n \in 1 .. Len(FittingPositions(packCall)) |->
                     LET c == Candidates(packCall)[FittingPositions(packCall)[n]]
                     IN  [content |-> get_reference_content(c),
                          reference_type |-> c.reference.reference_type,
                          token_count |-> estimate_tokens(get_reference_content(c))]]

\* a candidate was passed over and a later one, with tokens, was admitted
C24_Witness ==
    /\ Returned(packCall)
    /\ \E i, j \in 1 .. Len(Candidates(packCall)) :
           /\ i < j
           /\ ~Fits(packCall, i)
           /\ Fits(packCall, j)
           /\ CandidateTokens(packCall, j) > 0

\* ------------------------------------------------------------------ reference ranking
\* Scores are kept exact: a factor score s stands for s/60 and a weight w for
\* w/100, so a composite score c stands for c/6000.

\* self.default_weights
default_weights ==
    [semantic_similarity |-> 60, proximity |-> 20, recency |-> 10, usage |-> 8,
     test_boost |-> 2]

\* the order in which the factors are summed
Factors == <<"semantic_similarity", "proximity", "recency", "usage", "test_boost">>

\* file_path.lower() for the paths of the candidates
lower(file_path) == IF file_path = "src/Inspector.py" THEN "src/inspector.py" ELSE file_path

\* any(test_indicator in s for test_indicator in ['test', 'spec', 'testing'])
has_test_indicator(s) == s \in {"tests/a.py", "src/inspector.py"}

Dot(a, b) == IF Len(a) = 0 THEN 0 ELSE a[1] * b[1] + (IF Len(a) > 1 THEN a[2] * b[2] ELSE 0)

\* _semantic_similarity_score for 0/1 vectors with at most one 1: the neutral 0.5
\* without an embedding on either side or with unequal lengths, 0.0 for a zero
\* norm, else the cosine
semantic_similarity_score(candidate, error_embedding) ==
    IF error_embedding = None \/ candidate.embedding = None THEN 30
    ELSE IF Len(candidate.embedding.v) # Len(error_embedding.v) THEN 30
    ELSE IF Dot(error_embedding.v, error_embedding.v) = 0
             \/ Dot(candidate.embedding.v, candidate.embedding.v) = 0 THEN 0
    ELSE 60 * Dot(error_embedding.v, candidate.embedding.v)

\* _proximity_score: 1 / (1 + call_distance), call_distance 2 when the key is missing
proximity_score(candidate) ==
    60 \div (1 + (IF candidate.call_distance = None THEN 2 ELSE candidate.call_distance.d))

\* _recency_score: 0.5 without last_modified, exp(-0.1 * days) with it; the
\* candidates carry either nothing or a modification of today
recency_score(candidate) == IF candidate.last_modified = None THEN 30 ELSE 60

\* _usage_score: log(1 + usage_count) / 10, for the usage counts absent and 0
usage_score(candidate) == 0

\* _test_boost_score
test_boost_score(candidate) ==
    IF has_test_indicator(lower(candidate.file_path)) THEN 72 ELSE 60

factor_score(factor, candidate, error_embedding) ==
    CASE factor = "semantic_similarity" -> semantic_similarity_score(candidate, error_embedding)
      [] factor = "proximity" -> proximity_score(candidate)
      [] factor = "recency" -> recency_score(candidate)
      [] factor = "usage" -> usage_score(candidate)
      [] factor = "test_boost" -> test_boost_score(candidate)

RECURSIVE weighted_sum(_, _, _, _)
\* for factor, weight in weights.items(): total_score += scores[factor] * weight
weighted_sum(candidate, error_embedding, weights, i) ==
    IF i > Len(Factors) THEN 0
    ELSE (IF Factors[i] \in DOMAIN weights
          THEN factor_score(Factors[i], candidate, error_embedding) * weights[Factors[i]]
          ELSE 0)
         + weighted_sum(candidate, error_embedding, weights, i + 1)

\* _calculate_score
calculate_score(candidate, error_embedding, weights) ==
    weighted_sum(candidate, error_embedding, weights, 1)

\* a sort that puts a candidate before the ones of equal score
insert_before_equal(ranked, x) ==
    LET before == SelectSeq(ranked, LAMBDA r : r.ranking_score > x.ranking_score)
        after == SelectSeq(ranked, LAMBDA r : r.ranking_score <= x.ranking_score)
    IN  before \o <<x>> \o after

\* list.sort(key = ranking_score, reverse = True), one element at a time: the sort
\* is stable, an element goes behind the ones of equal score that came before it
insert_by_score(ranked, x) ==
    LET before == SelectSeq(ranked, LAMBDA r : r.ranking_score >= x.ranking_score)
        after == SelectSeq(ranked, LAMBDA r : r.ranking_score < x.ranking_score)
    IN  before \o <<x>> \o after

RECURSIVE sort_by_score(_, _, _)
sort_by_score(ranked, annotated, i) ==
    IF i > Len(annotated) THEN ranked
    ELSE sort_by_score(insert_by_score(ranked, annotated[i]), annotated, i + 1)

\* rank_references; params = None stands for a call without params
rank_references(reference_candidates, error_embedding, params) ==
    IF Len(reference_candidates) = 0 THEN <<>>
    ELSE LET weights == IF params = None THEN default_weights ELSE params.w
             ranked_candidates ==
                 [i \in 1 .. Len(reference_candidates) |->
                     [ranking_score |-> calculate_score(reference_candidates[i],
                                                        error_embedding, weights)]
                     @@ reference_candidates[i]]
         IN  sort_by_score(<<>>, ranked_candidates, 1)

\* ------------------------------------------------------------------ ranking specification
RankPaths == {"src/a.py", "tests/a.py", "src/Inspector.py"}
\* a candidate with the file path only
PlainCandidate(file_path) ==
    [file_path |-> file_path, call_distance |-> None, last_modified |-> None,
     embedding |-> None]
\* a plain candidate per path, and src/a.py with one more key: a call distance,
\* a modification time, or an embedding
RankCandidates ==
    {PlainCandidate(p) : p \in RankPaths}
    \cup {[PlainCandidate("src/a.py") EXCEPT !.call_distance = [d |-> n]] :
              n \in 0 .. MaxCallDistance}
    \cup {[PlainCandidate("src/a.py") EXCEPT !.last_modified = Timestamp],
          [PlainCandidate("src/a.py") EXCEPT !.embedding = [v |-> <<0, 1>>]]}
ErrorEmbeddings == {None, [v |-> <<0, 1>>]}
RankParams == {None, [w |-> [proximity |-> 100]]}

InitRank ==
    /\ symbolTable = <<>>
    /\ referenceTable = <<>>
    /\ projects = {1}
    /\ repoFiles = [p \in {} |-> <<>>]
    /\ parsers = {}
    /\ vectorMatches = <<>>
    /\ refsCall = None
    /\ packCall = None
    /\ resolveCall = None
    /\ findCall = None
    /\ rankCall = None
    /\ selectCall = None
    /\ jobTable = <<>>
    /\ chunkTable = <<>>
    /\ store = "up"
    /\ job = None
    /\ history = <<>>
    /\ workers = IdleWorkers

\* One call of rank_references.
RankReferences ==
    \E cs \in SeqsUpTo(RankCandidates, MaxCandidates), e \in ErrorEmbeddings, ps \in RankParams :
        /\ rankCall = None
        /\ rankCall' = [reference_candidates |-> cs, error_embedding |-> e, params |-> ps,
                        result |-> rank_references(cs, e, ps)]
        /\ UNCHANGED <<storeVars, refsCall, packCall, resolveCall, findCall>>

\* The caller takes the ranked list.
ReturnRanked ==
    /\ rankCall # None
    /\ rankCall' = None
    /\ UNCHANGED <<storeVars, refsCall, packCall, resolveCall, findCall>>

NextRank == RankReferences \/ ReturnRanked

SpecRank == InitRank /\ [][NextRank]_vars

\* two ranked candidates that differ in the file path only
SameButPath(x, y) ==
    /\ x.call_distance = y.call_distance
    /\ x.last_modified = y.last_modified
    /\ x.embedding = y.embedding

IsTest(x) == has_test_indicator(lower(x.file_path))

\* C25: under the default weights, of two candidates that are identical except
\* that one's file path contains 'test', 'spec' or 'testing' (in any case), the
\* test candidate's composite score is 1.2 times the other's.
C25_TestBoostMultiplies ==
    (rankCall # None /\ rankCall.params = None)
        => \A i, j \in 1 .. Len(rankCall.result) :
               (/\ SameButPath(rankCall.result[i], rankCall.result[j])
                /\ IsTest(rankCall.result[i]) /\ ~IsTest(rankCall.result[j]))
                   => 5 * rankCall.result[i].ranking_score
                          = 6 * rankCall.result[j].ranking_score

\* the ways to lay n input positions out in a result of length n
Arrangements(n) == {f \in [1 .. n -> 1 .. n] : \A a, b \in 1 .. n : f[a] = f[b] => a = b}

\* the weights the call used
WeightsOf(call) == IF call.params = None THEN default_weights ELSE call.params.w

\* C26: rank_references returns a permutation of its input candidates, each
\* annotated with its composite score, in non-increasing score order; candidates
\* of equal score keep their relative input order.
C26_StableDescendingPermutation ==
    rankCall # None
        => /\ Len(rankCall.result) = Len(rankCall.reference_candidates)
           /\ \E f \in Arrangements(Len(rankCall.result)) :
                  \A k \in 1 .. Len(rankCall.result) :
                      /\ rankCall.result[k]
                             = [ranking_score |->
                                    calculate_score(rankCall.reference_candidates[f[k]],
                                                    rankCall.error_embedding,
                                                    WeightsOf(rankCall))]
                               @@ rankCall.reference_candidates[f[k]]
                      /\ \A m \in 1 .. Len(rankCall.result) :
                             k < m => \/ rankCall.result[k].ranking_score
                                             > rankCall.result[m].ranking_score
                                      \/ /\ rankCall.result[k].ranking_score
                                                = rankCall.result[m].ranking_score
                                         /\ f[k] < f[m]

\* two different candidates of equal score came back in their input order, behind
\* a candidate of higher score that was given after one of them
C26_Witness ==
    /\ rankCall # None
    /\ \E k, m \in 1 .. Len(rankCall.result) :
           /\ k < m
           /\ rankCall.result[k].ranking_score = rankCall.result[m].ranking_score
           /\ rankCall.result[k] # rankCall.result[m]
    /\ rankCall.result[1].ranking_score
           > [ranking_score |-> calculate_score(rankCall.reference_candidates[1],
                                                rankCall.error_embedding,
                                                WeightsOf(rankCall))].ranking_score

\* ------------------------------------------------------------------ extractor per language
\* what the extractor registered for the file's language yields for the file
RegisteredDrafts(file_path) ==
    service_parse_symbols(detect_language(file_path), repoFiles[file_path], file_path)

\* name, first line and language of the drafts
DraftKeys(drafts) ==
    {<<drafts[n].symbol_name, drafts[n].start_line, drafts[n].language>> :
        n \in 1 .. Len(drafts)}

\* C27: the symbols indexed from a file are the ones the extractor registered for
\* the language of its extension yields, never another language's; a file of an
\* unregistered language yields none, without an error.
C27_ExtractorOfDetectedLanguage ==
    CleanRun
        => /\ job.stats.errors = 0
           /\ \A n \in 1 .. Len(job.read_files) :
                  DraftKeys(SelectSeq(symbolTable,
                                      LAMBDA r : r.file_path = job.read_files[n]))
                      = DraftKeys(RegisteredDrafts(job.read_files[n]))

\* ------------------------------------------------------------------ two jobs side by side
\* The index endpoint hands index_project_symbols to a background task per
\* request; two requests for project 1 give two calls whose store operations
\* interleave.  A worker's frame: pc, job_id, code_files, the position f of the
\* file at hand, its drafts symbols, the position d of the draft at hand, what
\* get_by_unique returned for it, and the counters.

\* the draft as _process_single_file completes it (lines 104-106)
symbol_data_for(draft, project_id, commit_hash, content) ==
    draft @@ [project_id |-> project_id, commit_hash |-> commit_hash,
              token_count_estimate |->
                  estimate_tokens(Slice(content, draft.start_line, draft.end_line))]

\* the frame after a file is through: the next file, or the progress update
\* when the file closed its batch
after_file(frame) ==
    [frame EXCEPT !.stats.files_processed = @ + 1,
                  !.f = @ + 1,
                  !.symbols = <<>>,
                  !.d = 0,
                  !.existing = None,
                  !.pc = IF frame.f % BatchSize = 0 \/ frame.f = Len(frame.code_files)
                         THEN "progress" ELSE "file"]

\* lines 24-45: the job row, the project, the file list, the zeroed counters; the
\* endpoint passes no changed_files and no commit hash
WorkerStart ==
    \E w \in Workers :
        LET created == create_indexing_job(jobTable, 1, "processing", TRUE)
            code_files == select_code_files(<<>>, FALSE)
        IN  /\ workers[w].pc = "idle"
            /\ jobTable' = created.table
            /\ workers' = [workers EXCEPT ![w] =
                   [pc |-> IF Len(code_files) = 0 THEN "completing" ELSE "file",
                    job_id |-> created.job_id, code_files |-> code_files, f |-> 1,
                    symbols |-> <<>>, d |-> 0, existing |-> None,
                    stats |-> [total_files |-> Len(code_files), files_processed |-> 0,
                               symbols_found |-> 0, references_found |-> 0, errors |-> 0]]]
            /\ UNCHANGED <<symbolTable, referenceTable, chunkTable, store, job, history,
                           projects, repoFiles, parsers, vectorMatches, refsCall, packCall,
                           resolveCall, findCall, rankCall,
                           selectCall>>

\* lines 93-100: the language test and the parse of the next file
WorkerOpenFile ==
    \E w \in Workers :
        LET frame == workers[w]
            file_path == frame.code_files[frame.f]
            symbols == IF detect_language(file_path) = "unknown" THEN <<>>
                       ELSE ast_parse_symbols("python", repoFiles[file_path], file_path)
        IN  /\ frame.pc = "file"
            /\ workers' = [workers EXCEPT ![w] =
                   IF Len(symbols) = 0 THEN after_file(frame)
                   ELSE [frame EXCEPT !.symbols = symbols, !.d = 1, !.pc = "get_by_unique"]]
            /\ UNCHANGED <<symbolTable, referenceTable, jobTable, chunkTable, store, job,
                           history, projects, repoFiles, parsers, vectorMatches, refsCall,
                           packCall, resolveCall, findCall, rankCall,
                           selectCall>>

\* lines 125-130: the lookup of _upsert_symbol
WorkerGetByUnique ==
    \E w \in Workers :
        LET frame == workers[w]
            draft == frame.symbols[frame.d]
        IN  /\ frame.pc = "get_by_unique"
            /\ workers' = [workers EXCEPT ![w] =
                   [frame EXCEPT !.existing = get_by_unique(symbolTable, 1, draft.file_path,
                                                            draft.symbol_name,
                                                            draft.start_line),
                                 !.pc = "write"]]
            /\ UNCHANGED <<symbolTable, referenceTable, jobTable, chunkTable, store, job,
                           history, projects, repoFiles, parsers, vectorMatches, refsCall,
                           packCall, resolveCall, findCall, rankCall,
                           selectCall>>

\* lines 132-140 and 108-117: the update or the insert that the lookup chose,
\* then the chunk and the references of the symbol
WorkerWrite ==
    \E w \in Workers :
        LET frame == workers[w]
            file_path == frame.code_files[frame.f]
            content == repoFiles[file_path]
            symbol_data == symbol_data_for(frame.symbols[frame.d], 1, None, content)
            with_id == [id |-> frame.existing.id] @@ symbol_data
            symbol_id == IF frame.existing # None THEN frame.existing.id
                         ELSE Len(symbolTable) + 1
            symbols == [frame.symbols EXCEPT ![frame.d] =
                            IF frame.existing # None THEN with_id ELSE symbol_data]
            references == extract_references(symbol_id, content, file_path, symbols)
            counted == [frame EXCEPT !.symbols = symbols,
                                     !.stats.symbols_found = @ + 1,
                                     !.stats.references_found = @ + Len(references)]
        IN  /\ frame.pc = "write"
            /\ symbolTable' = IF frame.existing # None
                              THEN crud_update(symbolTable, frame.existing.id, with_id)
                              ELSE crud_create(symbolTable, symbol_data)
            /\ chunkTable' = index_symbol_chunks(chunkTable, symbol_id, symbol_data, TRUE)
            /\ referenceTable' = create_all(referenceTable, references, 1)
            /\ workers' = [workers EXCEPT ![w] =
                   IF frame.d = Len(frame.symbols) THEN after_file(counted)
                   ELSE [counted EXCEPT !.d = @ + 1, !.existing = None,
                                        !.pc = "get_by_unique"]]
            /\ UNCHANGED <<jobTable, store, job, history, projects, repoFiles, parsers,
                           vectorMatches, refsCall, packCall, resolveCall, findCall, rankCall,
                           selectCall>>

\* lines 53-57: the progress update that closes a batch
WorkerUpdateProgress ==
    \E w \in Workers :
        LET frame == workers[w]
            total == Len(frame.code_files)
        IN  /\ frame.pc = "progress"
            /\ jobTable' = update_indexing_job(jobTable, frame.job_id,
                               progress_updates(frame.stats, frame.f - 1, total), TRUE)
            /\ workers' = [workers EXCEPT ![w] =
                   [frame EXCEPT !.pc = IF frame.f > total THEN "completing" ELSE "file"]]
            /\ UNCHANGED <<symbolTable, referenceTable, chunkTable, store, job, history,
                           projects, repoFiles, parsers, vectorMatches, refsCall, packCall,
                           resolveCall, findCall, rankCall,
                           selectCall>>

\* lines 60-66: the job is marked completed
WorkerComplete ==
    \E w \in Workers :
        LET frame == workers[w]
        IN  /\ frame.pc = "completing"
            /\ jobTable' = update_indexing_job(jobTable, frame.job_id,
                                               completed_updates(frame.stats), TRUE)
            /\ workers' = [workers EXCEPT ![w] = [frame EXCEPT !.pc = "finished"]]
            /\ UNCHANGED <<symbolTable, referenceTable, chunkTable, store, job, history,
                           projects, repoFiles, parsers, vectorMatches, refsCall, packCall,
                           resolveCall, findCall, rankCall,
                           selectCall>>

NextConcurrent ==
    \/ WorkerStart \/ WorkerOpenFile \/ WorkerGetByUnique \/ WorkerWrite
    \/ WorkerUpdateProgress \/ WorkerComplete

SpecConcurrent == InitJob /\ [][NextConcurrent]_vars

FullRun ==
    /\ job # None
    /\ job.pc \in {"batch", "progress", "completing", "returned"}
    /\ (job.changed_files = <<>> \/ job.force_full_reindex)

\* the files of the repository that carry one of the suffixes of the enumeration
RepositoryCodeFiles ==
    {f \in DOMAIN repoFiles : \E e \in 1 .. Len(FindExtensions) : FileSuffix[f] = FindExtensions[e]}

\* C29: without changed_files (absent or empty) the job processes the full
\* code-file enumeration of the repository although force_full_reindex is false,
\* and with force_full_reindex any changed_files list is ignored and the full
\* enumeration is processed.
C29_FullEnumeration ==
    FullRun
        => /\ {job.code_files[n] : n \in 1 .. Len(job.code_files)} = RepositoryCodeFiles
           /\ Len(job.code_files) = Cardinality(RepositoryCodeFiles)
           /\ job.stats.total_files = Cardinality(RepositoryCodeFiles)
           /\ job.pc = "returned"
                  => {job.read_files[n] : n \in 1 .. Len(job.read_files)} = RepositoryCodeFiles

\* a forced run with a changed_files list has returned after reading a file that
\* is not on the list
C29_Witness ==
    /\ FullRun /\ job.pc = "returned"
    /\ job.force_full_reindex /\ job.changed_files # <<>>
    /\ \E n \in 1 .. Len(job.read_files) :
           \A m \in 1 .. Len(job.changed_files) : job.read_files[n] # job.changed_files[m]

\* ------------------------------------------------------------------ what a selection holds
\* C30: in every selection result token_count is the definition's token_count
\* plus the token_count of the references, and callers, callees, imports, tests
\* and historical_fixes are empty: historical fixes are never admitted and take
\* nothing from the budget.
C30_OnlyDefinitionAndReferences ==
    /\ Returned(packCall)
           => /\ packCall.outcome.token_count
                     = packCall.outcome.definition.token_count
                       + SumTokenCounts(packCall.outcome.references)
              /\ packCall.outcome.callers = <<>> /\ packCall.outcome.callees = <<>>
              /\ packCall.outcome.imports = <<>> /\ packCall.outcome.tests = <<>>
              /\ packCall.outcome.historical_fixes = <<>>
    /\ (selectCall # None /\ "exception" \notin DOMAIN selectCall.result)
           => /\ selectCall.result.total_tokens
                     = selectCall.result.definition.token_count
                       + SumTokenCounts(selectCall.result.references)
              /\ selectCall.result.callers = <<>> /\ selectCall.result.callees = <<>>
              /\ selectCall.result.imports = <<>> /\ selectCall.result.tests = <<>>
              /\ selectCall.result.historical_fixes = <<>>

\* a selection that was given a historical fix and had budget left after
\* admitting a reference with tokens
C30_Witness ==
    /\ selectCall # None /\ "exception" \notin DOMAIN selectCall.result
    /\ Len(selectCall.historical_fixes) > 0
    /\ SumTokenCounts(selectCall.result.references) > 0
    /\ selectCall.result.total_tokens < selectCall.token_budget

====
